---- MODULE Spec2Model ----
(***************************************************************************)
(* open-cmd: resolving a path or URI into the command that opens it.       *)
(*                                                                         *)
(* Strings (String, &str, OsString, PathBuf) are sequences of tokens; a    *)
(* token is a run of characters the functions below never look inside.     *)
(***************************************************************************)
EXTENDS Naturals, Sequences, FiniteSets, TLC

\* An ill-formed code unit: a byte that is not UTF-8 on Unix, an unpaired
\* surrogate on Windows.  It occurs in OsString and PathBuf, never in String.
BAD == "<FF>"
\* U+FFFD, what a lossy conversion writes for BAD.
REPL == "<U+FFFD>"
\* A Windows disk prefix.
DRIVE == "C:"

\* Tokens made of letters, digits and inner dots.
Words ==
    {"file", "FILE", "https", "HTTPS", "web", "aa", "a", "b.txt", "home", "u",
     "example.com", "test", "path", "tmp", "report.pdf", "x"}

Ok(v) == [ok |-> TRUE, val |-> v]

Err(e) == [ok |-> FALSE, err |-> e]

Lower(t) ==
    CASE t = "HTTPS" -> "https"
      [] t = "FILE" -> "file"
      [] OTHER -> t

LowerAll(s) == [i \in 1..Len(s) |-> Lower(s[i])]

IsUnicode(s) == \A i \in 1..Len(s) : s[i] # BAD

Front(s) == SubSeq(s, 1, Len(s) - 1)

Drop(s, n) == SubSeq(s, n + 1, Len(s))

\* Index of the first occurrence of token t in s, 0 when there is none.
RECURSIVE IndexFrom(_, _, _)
IndexFrom(s, t, i) ==
    IF i > Len(s) THEN 0
    ELSE IF s[i] = t THEN i
    ELSE IndexFrom(s, t, i + 1)

IndexOf(s, t) == IndexFrom(s, t, 1)

\* s cut at every token sep: a non-empty sequence of segments.
RECURSIVE Split(_, _)
Split(s, sep) ==
    LET i == IndexOf(s, sep)
    IN  IF i = 0 THEN <<s>>
        ELSE <<SubSeq(s, 1, i - 1)>> \o Split(Drop(s, i), sep)

\* Every segment with a "/" before it.
RECURSIVE SlashJoin(_)
SlashJoin(segs) ==
    IF segs = <<>> THEN <<>>
    ELSE <<"/">> \o Head(segs) \o SlashJoin(Tail(segs))

StartsWithSlashes(s, n) == Len(s) >= n /\ \A i \in 1..n : s[i] = "/"

RECURSIVE DropSlashes(_)
DropSlashes(s) ==
    IF s # <<>> /\ Head(s) = "/" THEN DropSlashes(Tail(s)) ELSE s

(***************************************************************************)
(* url::Url: parsing without a base URL, and serialization.                *)
(***************************************************************************)
UrlErr(kind) == Err([kind |-> "UrlParse", why |-> kind])

UrlOk(u) == Ok(u)

MkUrl(scheme, hasHost, host, path, hasQuery, query) ==
    [scheme |-> scheme, hasHost |-> hasHost, host |-> host, path |-> path,
     hasQuery |-> hasQuery, query |-> query]

RECURSIVE TrimLeft(_)
TrimLeft(s) ==
    IF s # <<>> /\ Head(s) = " " THEN TrimLeft(Tail(s)) ELSE s

RECURSIVE TrimRight(_)
TrimRight(s) ==
    IF s # <<>> /\ s[Len(s)] = " " THEN TrimRight(Front(s)) ELSE s

Trim(s) == TrimRight(TrimLeft(s))

\* The index of the ":" that ends the scheme, 0 when s starts with no scheme.
RECURSIVE SchemeEnd(_, _)
SchemeEnd(s, i) ==
    IF i > Len(s) THEN 0
    ELSE IF s[i] = ":" THEN (IF i > 1 THEN i ELSE 0)
    ELSE IF s[i] \in Words \/ (i > 1 /\ s[i] = ".") THEN SchemeEnd(s, i + 1)
    ELSE 0

\* Percent-encoding of a path segment or a query while parsing.
EncodeTok(t) == IF t = " " THEN "%20" ELSE t

Encode(s) == [i \in 1..Len(s) |-> EncodeTok(s[i])]

\* Dot segments removed; a trailing dot segment leaves an empty segment.
RECURSIVE NormSegs(_, _, _)
NormSegs(segs, i, out) ==
    IF i > Len(segs) THEN out
    ELSE LET sg == segs[i]
             tail == IF i = Len(segs) THEN << <<>> >> ELSE <<>>
         IN  IF sg = <<".", ".">>
                 THEN NormSegs(segs, i + 1,
                               (IF out = <<>> THEN out ELSE Front(out)) \o tail)
             ELSE IF sg = <<".">>
                 THEN NormSegs(segs, i + 1, out \o tail)
             ELSE NormSegs(segs, i + 1, Append(out, Encode(sg)))

\* The path of a hierarchical URL from the text after its authority (empty,
\* or starting with "/").
PathOf(p, special) ==
    IF p = <<>> THEN (IF special THEN <<"/">> ELSE <<>>)
    ELSE SlashJoin(NormSegs(Split(Tail(p), "/"), 1, <<>>))

IsDomain(h) == \A i \in 1..Len(h) : h[i] \in Words \/ h[i] = "."

IsOpaqueHost(h) == \A i \in 1..Len(h) : h[i] \in Words \cup {".", "%20"}

\* scheme://host[:port]/path, the text a after the two slashes.
ParseAuthority(scheme, a, special, hasQuery, query) ==
    LET slash == IndexOf(a, "/")
        auth == IF slash = 0 THEN a ELSE SubSeq(a, 1, slash - 1)
        rest == IF slash = 0 THEN <<>> ELSE Drop(a, slash - 1)
        colon == IndexOf(auth, ":")
        host == IF colon = 0 THEN auth ELSE SubSeq(auth, 1, colon - 1)
        port == IF colon = 0 THEN <<>> ELSE Drop(auth, colon)
    IN  IF special /\ host = <<>> THEN UrlErr("EmptyHost")
        ELSE IF port # <<>> THEN UrlErr("InvalidPort")
        ELSE IF special /\ ~IsDomain(host) THEN UrlErr("InvalidDomainCharacter")
        ELSE IF ~special /\ ~IsOpaqueHost(host) THEN UrlErr("InvalidDomainCharacter")
        ELSE UrlOk(MkUrl(scheme, TRUE,
                         IF special THEN LowerAll(host) ELSE host,
                         PathOf(rest, special), hasQuery, query))

ParseFile(pre, hasQuery, query) ==
    IF StartsWithSlashes(pre, 2)
        THEN LET a == Drop(pre, 2)
                 slash == IndexOf(a, "/")
                 host == IF slash = 0 THEN a ELSE SubSeq(a, 1, slash - 1)
                 rest == IF slash = 0 THEN <<>> ELSE Drop(a, slash - 1)
             IN  IF ~IsDomain(host) THEN UrlErr("InvalidDomainCharacter")
                 ELSE UrlOk(MkUrl(<<"file">>, TRUE, LowerAll(host),
                                  PathOf(rest, TRUE), hasQuery, query))
    ELSE IF StartsWithSlashes(pre, 1)
        THEN UrlOk(MkUrl(<<"file">>, TRUE, <<>>, PathOf(pre, TRUE),
                         hasQuery, query))
    ELSE UrlOk(MkUrl(<<"file">>, TRUE, <<>>, PathOf(<<"/">> \o pre, TRUE),
                     hasQuery, query))

ParseNonSpecial(scheme, pre, hasQuery, query) ==
    IF StartsWithSlashes(pre, 2)
        THEN ParseAuthority(scheme, Drop(pre, 2), FALSE, hasQuery, query)
    ELSE IF StartsWithSlashes(pre, 1)
        THEN UrlOk(MkUrl(scheme, FALSE, <<>>, PathOf(pre, FALSE), hasQuery, query))
    ELSE UrlOk(MkUrl(scheme, FALSE, <<>>, pre, hasQuery, query))

UrlParse(s) ==
    LET t == Trim(s)
        e == SchemeEnd(t, 1)
    IN  IF e = 0 THEN UrlErr("RelativeUrlWithoutBase")
        ELSE LET scheme == LowerAll(SubSeq(t, 1, e - 1))
                 rest == Drop(t, e)
                 q == IndexOf(rest, "?")
                 pre == IF q = 0 THEN rest ELSE SubSeq(rest, 1, q - 1)
                 query == IF q = 0 THEN <<>> ELSE Encode(Drop(rest, q))
             IN  CASE scheme = <<"file">> -> ParseFile(pre, q # 0, query)
                   [] scheme = <<"https">> ->
                        ParseAuthority(scheme, DropSlashes(pre), TRUE, q # 0, query)
                   [] OTHER -> ParseNonSpecial(scheme, pre, q # 0, query)

\* Url's Display: its serialization.
UrlToString(u) ==
    u.scheme \o <<":">>
    \o (IF u.hasHost THEN <<"/", "/">> \o u.host
        ELSE IF StartsWithSlashes(u.path, 2) THEN <<"/", ".">>
        ELSE <<>>)
    \o u.path
    \o (IF u.hasQuery THEN <<"?">> \o u.query ELSE <<>>)

(***************************************************************************)
(* std::path: PathBuf::join, Path::display; path_clean; Url::from_file_path *)
(* "/" separates components on every platform; Windows paths carry DRIVE.  *)
(***************************************************************************)
HasPrefix(p, plat) == plat = "windows" /\ p # <<>> /\ Head(p) = DRIVE

PathBody(p, plat) == IF HasPrefix(p, plat) THEN Tail(p) ELSE p

HasRoot(p, plat) == StartsWithSlashes(PathBody(p, plat), 1)

IsAbsolute(p, plat) ==
    IF plat = "windows" THEN HasPrefix(p, plat) /\ HasRoot(p, plat)
    ELSE HasRoot(p, plat)

\* base.join(p): an absolute p replaces base.
PathJoin(base, p, plat) ==
    IF IsAbsolute(p, plat) \/ HasPrefix(p, plat) THEN p
    ELSE IF HasRoot(p, plat)
        THEN (IF HasPrefix(base, plat) THEN <<Head(base)>> ELSE <<>>) \o p
    ELSE IF base = <<>> \/ base[Len(base)] = "/" THEN base \o p
    ELSE base \o <<"/">> \o p

\* The components after the prefix and the root: no empty one, no ".".
Components(p, plat) ==
    SelectSeq(Split(PathBody(p, plat), "/"),
              LAMBDA sg : sg # <<>> /\ sg # <<".">>)

\* ".." removes the component before it, is dropped at the root and is kept
\* at the start of a relative path.
RECURSIVE CleanSegs(_, _, _, _)
CleanSegs(segs, i, out, rooted) ==
    IF i > Len(segs) THEN out
    ELSE IF segs[i] # <<".", ".">> THEN CleanSegs(segs, i + 1, Append(out, segs[i]), rooted)
    ELSE IF out # <<>> /\ out[Len(out)] # <<".", ".">>
        THEN CleanSegs(segs, i + 1, Front(out), rooted)
    ELSE IF rooted THEN CleanSegs(segs, i + 1, out, rooted)
    ELSE CleanSegs(segs, i + 1, Append(out, segs[i]), rooted)

RECURSIVE SepJoin(_)
SepJoin(segs) ==
    IF segs = <<>> THEN <<>>
    ELSE IF Len(segs) = 1 THEN Head(segs)
    ELSE Head(segs) \o <<"/">> \o SepJoin(Tail(segs))

\* path_clean::PathClean::clean: lexical, no file system access.
PathClean(p, plat) ==
    LET rooted == HasRoot(p, plat)
        segs == CleanSegs(Components(p, plat), 1, <<>>, rooted)
        out == (IF HasPrefix(p, plat) THEN <<Head(p)>> ELSE <<>>)
               \o (IF rooted THEN <<"/">> ELSE <<>>)
               \o SepJoin(segs)
    IN  IF out = <<>> THEN <<".">> ELSE out

\* Percent-encoding of a path component in a file: URL.
FileEncodeTok(t, plat) ==
    CASE t = " " -> "%20"
      [] t = "?" -> "%3F"
      [] t = "%20" -> "%2520"
      [] t = BAD -> "%FF"
      [] OTHER -> t

FileEncode(s, plat) == [i \in 1..Len(s) |-> FileEncodeTok(s[i], plat)]

FileEncodeAll(segs, plat) == [i \in 1..Len(segs) |-> FileEncode(segs[i], plat)]

\* Url::from_file_path: Err(()) for a path that is not absolute, on Windows
\* also for one without a disk prefix or with a component that is not Unicode.
FromFilePath(p, plat) ==
    LET segs == Components(p, plat)
        tail == IF segs = <<>> THEN <<"/">>
                ELSE SlashJoin(FileEncodeAll(segs, plat))
    IN  IF ~IsAbsolute(p, plat) THEN Err(<<>>)
        ELSE IF plat = "windows"
            THEN IF \E i \in 1..Len(segs) : ~IsUnicode(segs[i]) THEN Err(<<>>)
                 ELSE Ok(MkUrl(<<"file">>, TRUE, <<>>, <<"/", Head(p)>> \o tail,
                               FALSE, <<>>))
        ELSE Ok(MkUrl(<<"file">>, TRUE, <<>>, tail, FALSE, <<>>))

\* Path::display: lossy.
PathDisplay(p) == [i \in 1..Len(p) |-> IF p[i] = BAD THEN REPL ELSE p[i]]

(***************************************************************************)
(* PathOrURI                                                               *)
(***************************************************************************)
PathVal(p) == [tag |-> "Path", path |-> p]

UriVal(u) == [tag |-> "URI", uri |-> u]

is_path(t) == t.tag = "Path"

is_uri(t) == t.tag = "URI"

FromPathBuf(value) == PathVal(value)

\* Mutant: the file: collapse is forgotten.
FromUrlNoCollapse(value) == UriVal(value)

FromUrl(value) ==
    IF value.scheme = <<"file">> THEN FromPathBuf(value.path)
    ELSE UriVal(value)

\* Mutant: the fallback path is the trimmed string.
from_strTrimmed(s) ==
    LET r == UrlParse(s)
    IN  IF r.ok THEN Ok(FromUrl(r.val)) ELSE Ok(FromPathBuf(Trim(s)))

from_str(s) ==
    LET r == UrlParse(s)
    IN  IF r.ok THEN Ok(FromUrl(r.val)) ELSE Ok(FromPathBuf(s))

\* Mutant: a URI is displayed by its path alone.
to_stringPathOnly(t) ==
    IF t.tag = "Path" THEN PathDisplay(t.path) ELSE t.uri.path

to_string(t) ==
    IF t.tag = "Path" THEN PathDisplay(t.path) ELSE UrlToString(t.uri)

\* Mutant: the joined path is not cleaned.
uriUncleaned(t, dir, plat) ==
    IF t.tag = "URI" THEN Ok(t.uri)
    ELSE IF ~dir.ok THEN Err([kind |-> "IO"])
    ELSE LET r == FromFilePath(PathJoin(dir.val, t.path, plat), plat)
         IN  IF r.ok THEN r ELSE Err([kind |-> "FileToURI", path |-> t.path])

\* PathOrURI::uri, given what std::env::current_dir returns.
uri(t, dir, plat) ==
    IF t.tag = "URI" THEN Ok(t.uri)
    ELSE IF ~dir.ok THEN Err([kind |-> "IO"])
    ELSE LET new_path == PathClean(PathJoin(dir.val, t.path, plat), plat)
             r == FromFilePath(new_path, plat)
         IN  IF r.ok THEN r ELSE Err([kind |-> "FileToURI", path |-> t.path])

(***************************************************************************)
(* The resolver, as functions of what the process can read: the            *)
(* environment e, the set r of names which::which resolves, and the        *)
(* result dir of std::env::current_dir.                                    *)
(***************************************************************************)
BROWSER_ENV == "BROWSER"

EDITOR_ENV == "EDITOR"

EnvNames == {BROWSER_ENV, EDITOR_ENV}

Unset == [set |-> FALSE, val |-> <<>>]

SetTo(v) == [set |-> TRUE, val |-> v]

LINUX_OPEN_COMMAND == <<"xdg-open">>

MACOS_OPEN_COMMAND == <<"open">>

WINDOWS_OPEN_COMMAND == <<"cmd">>

Platforms == {"linux", "macos", "windows"}

\* Mutant: an empty value counts as no value.
env_varNonEmpty(e, name) ==
    IF ~e[name].set \/ e[name].val = <<>> THEN Err([kind |-> "NotPresent"])
    ELSE IF ~IsUnicode(e[name].val) THEN Err([kind |-> "NotUnicode"])
    ELSE Ok(e[name].val)

\* std::env::var: Err when the variable is not present or is not Unicode.
env_var(e, name) ==
    IF ~e[name].set THEN Err([kind |-> "NotPresent"])
    ELSE IF ~IsUnicode(e[name].val) THEN Err([kind |-> "NotUnicode"])
    ELSE Ok(e[name].val)

\* Mutant: the lookup's result is dropped.
ensure_commandUnchecked(r, cmd) == Ok(<<>>)

ensure_command(r, cmd) ==
    IF cmd \in r THEN Ok(<<>>)
    ELSE Err([kind |-> "NotFound", exe |-> cmd])

\* Command::new(cmd) with cmd.arg(target.to_string()).
CommandWithTarget(cmd, target) ==
    [program |-> cmd, args |-> <<to_string(target)>>]

\* Command::new("cmd") with args /c, start and the URI's string.
CommandStart(urlstr) ==
    [program |-> WINDOWS_OPEN_COMMAND, args |-> << <<"/c">>, <<"start">>, urlstr >>]

open_with_command(r, cmd, target) ==
    LET c == ensure_command(r, cmd)
    IN  IF ~c.ok THEN c ELSE Ok(CommandWithTarget(cmd, target))

linux_open(r, target) == open_with_command(r, LINUX_OPEN_COMMAND, target)

macos_open(r, target) == open_with_command(r, MACOS_OPEN_COMMAND, target)

windows_open(r, dir, target) ==
    LET c == ensure_command(r, WINDOWS_OPEN_COMMAND)
        u == uri(target, dir, "windows")
    IN  IF ~c.ok THEN c
        ELSE IF ~u.ok THEN u
        ELSE Ok(CommandStart(UrlToString(u.val)))

\* The adapter the build links.
sys_open(plat, r, dir, target) ==
    CASE plat = "linux" -> linux_open(r, target)
      [] plat = "macos" -> macos_open(r, target)
      [] plat = "windows" -> windows_open(r, dir, target)

SysCommand(plat) ==
    CASE plat = "linux" -> LINUX_OPEN_COMMAND
      [] plat = "macos" -> MACOS_OPEN_COMMAND
      [] plat = "windows" -> WINDOWS_OPEN_COMMAND

open_env(plat, e, r, dir, name, target) ==
    LET v == env_var(e, name)
    IN  IF v.ok THEN open_with_command(r, v.val, target)
        ELSE sys_open(plat, r, dir, target)

\* PathOrURI::from(target) for the two argument types.
From(a) == IF a.kind = "Url" THEN FromUrl(a.url) ELSE FromPathBuf(a.path)

\* Mutant: open honours BROWSER.
openViaBrowser(plat, e, r, dir, a) ==
    open_env(plat, e, r, dir, BROWSER_ENV, From(a))

open(plat, e, r, dir, a) == sys_open(plat, r, dir, From(a))

open_browser(plat, e, r, dir, a) == open_env(plat, e, r, dir, BROWSER_ENV, From(a))

open_editor(plat, e, r, dir, a) == open_env(plat, e, r, dir, EDITOR_ENV, From(a))

(***************************************************************************)
(* State.  The build and the surroundings of the process, the calls in     *)
(* progress on each thread, and a PathOrURI value under construction.      *)
(***************************************************************************)
VARIABLES
    platform,     \* the target_os of the build
    env,          \* the process environment: BROWSER and EDITOR
    resolvable,   \* the names which::which finds on the search path
    cwd,          \* what std::env::current_dir returns
    pc,           \* per thread: where its call stands
    fn,           \* per thread: the entry point called
    arg,          \* per thread: the argument passed
    target,       \* per thread: the PathOrURI built from it
    cmd,          \* per thread: the program name chosen
    viaSys,       \* per thread: the call entered sys_open
    urlstr,       \* per thread: target.uri()?.to_string() of the Windows adapter
    result,       \* per thread: the value returned
    envReads,     \* per thread: the variables read by the call
    probed,       \* per thread: the names given to which::which by the call
    cwdReads,     \* per thread: how often the call read the working directory
    tm_stage,     \* the value under construction: its stage
    tm_in,        \* the constructor's input
    tm_res,       \* what the constructor returned
    tm_prev,      \* the value whose display string tm_in is, if any
    tm_out        \* the display string

world == <<platform, env, resolvable, cwd>>

calls == <<pc, fn, arg, target, cmd, viaSys, urlstr, result, envReads, probed, cwdReads>>

tm == <<tm_stage, tm_in, tm_res, tm_prev, tm_out>>

vars == <<world, calls, tm>>

Threads == {1, 2}

NoArg == [kind |-> "None"]

NoTarget == [tag |-> "None"]

NoResult == [ok |-> FALSE, err |-> [kind |-> "None"]]

EnvOf(f) == IF f = "open_browser" THEN BROWSER_ENV ELSE EDITOR_ENV

\* The arguments of the calls: a web URL, a file: URL, a relative path, an
\* absolute path, a path that is not Unicode.
WebUrl == UrlParse(<<"https", ":", "/", "/", "example.com", "/", "x">>).val

FileUrl == UrlParse(<<"file", ":", "/", "/", "/", "test", "/", "path">>).val

RelPath == <<".", "/", "a", "/", ".", ".", "/", "b.txt">>

AbsPath == <<"/", "tmp", "/", "report.pdf">>

BadPath == <<"/", "tmp", "/", BAD>>

Args ==
    {[kind |-> "Url", url |-> WebUrl], [kind |-> "Url", url |-> FileUrl],
     [kind |-> "PathBuf", path |-> RelPath], [kind |-> "PathBuf", path |-> AbsPath],
     [kind |-> "PathBuf", path |-> BadPath]}

Fns == {"open", "open_browser", "open_editor", "uri"}

HomeDir(plat) ==
    IF plat = "windows" THEN <<DRIVE, "/", "home", "/", "u">>
    ELSE <<"/", "home", "/", "u">>

CwdChoices(plat) == {Err([kind |-> "IO"]), Ok(HomeDir(plat))}

FIREFOX == <<"firefox">>

\* A variable is unset, empty, the name of a browser, or not Unicode.
EnvValues == {Unset, SetTo(<<>>), SetTo(FIREFOX), SetTo(<<BAD>>)}

AllEnvs == [EnvNames -> EnvValues]

IdleCalls ==
    /\ fn = [t \in Threads |-> "none"]
    /\ arg = [t \in Threads |-> NoArg]
    /\ target = [t \in Threads |-> NoTarget]
    /\ cmd = [t \in Threads |-> <<>>]
    /\ viaSys = [t \in Threads |-> FALSE]
    /\ urlstr = [t \in Threads |-> <<>>]
    /\ result = [t \in Threads |-> NoResult]
    /\ envReads = [t \in Threads |-> {}]
    /\ probed = [t \in Threads |-> {}]
    /\ cwdReads = [t \in Threads |-> 0]

TmOff ==
    /\ tm_stage = "off"
    /\ tm_in = NoArg
    /\ tm_res = NoResult
    /\ tm_prev = NoTarget
    /\ tm_out = <<>>

\* One thread calls, in every build and every surrounding.
Init ==
    /\ platform \in Platforms
    /\ env \in AllEnvs
    /\ resolvable \in SUBSET {SysCommand(platform), FIREFOX}
    /\ cwd \in CwdChoices(platform)
    /\ pc = [t \in Threads |-> IF t = 1 THEN "idle" ELSE "off"]
    /\ IdleCalls
    /\ TmOff

(***************************************************************************)
(* The calls, one action per step of the code.                             *)
(***************************************************************************)
\* open, open_browser, open_editor build the target; open enters sys_open.
\* uri is called on a value built by a constructor.
Call(t) ==
    /\ pc[t] = "idle"
    /\ \E f \in Fns, a \in Args :
        /\ fn' = [fn EXCEPT ![t] = f]
        /\ arg' = [arg EXCEPT ![t] = a]
        /\ target' = [target EXCEPT ![t] = From(a)]
        /\ pc' = [pc EXCEPT ![t] =
                    CASE f = "open" -> "ensure"
                      [] f = "uri" -> "uri"
                      [] OTHER -> "open_env"]
        /\ viaSys' = [viaSys EXCEPT ![t] = (f = "open")]
        /\ cmd' = [cmd EXCEPT ![t] = IF f = "open" THEN SysCommand(platform) ELSE <<>>]
    /\ UNCHANGED <<world, urlstr, result, envReads, probed, cwdReads, tm>>

\* Mutant: the variable is taken out of the environment once read.
OpenEnvStepConsumes(t) ==
    /\ pc[t] = "open_env"
    /\ LET v == env_var(env, EnvOf(fn[t]))
       IN  /\ envReads' = [envReads EXCEPT ![t] = @ \cup {EnvOf(fn[t])}]
           /\ cmd' = [cmd EXCEPT ![t] = IF v.ok THEN v.val ELSE SysCommand(platform)]
           /\ viaSys' = [viaSys EXCEPT ![t] = ~v.ok]
    /\ env' = [env EXCEPT ![EnvOf(fn[t])] = Unset]
    /\ pc' = [pc EXCEPT ![t] = "ensure"]
    /\ UNCHANGED <<platform, resolvable, cwd, fn, arg, target, urlstr, result,
                   probed, cwdReads, tm>>

\* open_env: the override variable when std::env::var returns it, else the
\* platform adapter.
OpenEnvStep(t) ==
    /\ pc[t] = "open_env"
    /\ LET v == env_var(env, EnvOf(fn[t]))
       IN  /\ envReads' = [envReads EXCEPT ![t] = @ \cup {EnvOf(fn[t])}]
           /\ cmd' = [cmd EXCEPT ![t] = IF v.ok THEN v.val ELSE SysCommand(platform)]
           /\ viaSys' = [viaSys EXCEPT ![t] = ~v.ok]
    /\ pc' = [pc EXCEPT ![t] = "ensure"]
    /\ UNCHANGED <<world, fn, arg, target, urlstr, result, probed, cwdReads, tm>>

\* Mutant: an override that is not found gives way to the platform default.
EnsureStepFallback(t) ==
    /\ pc[t] = "ensure"
    /\ LET c == ensure_command(resolvable, cmd[t])
       IN  /\ probed' = [probed EXCEPT ![t] = @ \cup {cmd[t]}]
           /\ IF c.ok
                THEN /\ pc' = [pc EXCEPT ![t] =
                                IF viaSys[t] /\ platform = "windows"
                                    THEN "win_uri" ELSE "build"]
                     /\ UNCHANGED <<result, cmd, viaSys>>
                ELSE IF ~viaSys[t]
                    THEN /\ cmd' = [cmd EXCEPT ![t] = SysCommand(platform)]
                         /\ viaSys' = [viaSys EXCEPT ![t] = TRUE]
                         /\ UNCHANGED <<pc, result>>
                ELSE /\ pc' = [pc EXCEPT ![t] = "done"]
                     /\ result' = [result EXCEPT ![t] = c]
                     /\ UNCHANGED <<cmd, viaSys>>
    /\ UNCHANGED <<world, fn, arg, target, urlstr, envReads, cwdReads, tm>>

\* ensure_command(cmd)?
EnsureStep(t) ==
    /\ pc[t] = "ensure"
    /\ LET c == ensure_command(resolvable, cmd[t])
       IN  /\ probed' = [probed EXCEPT ![t] = @ \cup {cmd[t]}]
           /\ IF c.ok
                THEN /\ pc' = [pc EXCEPT ![t] =
                                IF viaSys[t] /\ platform = "windows"
                                    THEN "win_uri" ELSE "build"]
                     /\ UNCHANGED result
                ELSE /\ pc' = [pc EXCEPT ![t] = "done"]
                     /\ result' = [result EXCEPT ![t] = c]
    /\ UNCHANGED <<world, fn, arg, target, cmd, viaSys, urlstr, envReads, cwdReads, tm>>

\* The rest of open_with_command.
BuildStep(t) ==
    /\ pc[t] = "build"
    /\ result' = [result EXCEPT ![t] = Ok(CommandWithTarget(cmd[t], target[t]))]
    /\ pc' = [pc EXCEPT ![t] = "done"]
    /\ UNCHANGED <<world, fn, arg, target, cmd, viaSys, urlstr, envReads, probed, cwdReads, tm>>

ReadsCwd(tg) == IF is_path(tg) THEN 1 ELSE 0

\* Mutant: a target without a URI form is passed as displayed.
WinUriStepRawPath(t) ==
    /\ pc[t] = "win_uri"
    /\ LET u == uri(target[t], cwd, platform)
       IN  /\ cwdReads' = [cwdReads EXCEPT ![t] = @ + ReadsCwd(target[t])]
           /\ urlstr' = [urlstr EXCEPT ![t] =
                            IF u.ok THEN UrlToString(u.val) ELSE to_string(target[t])]
           /\ pc' = [pc EXCEPT ![t] = "win_build"]
    /\ UNCHANGED <<world, fn, arg, target, cmd, viaSys, result, envReads, probed, tm>>

\* windows::open: target.uri()?.to_string()
WinUriStep(t) ==
    /\ pc[t] = "win_uri"
    /\ LET u == uri(target[t], cwd, platform)
       IN  /\ cwdReads' = [cwdReads EXCEPT ![t] = @ + ReadsCwd(target[t])]
           /\ IF u.ok
                THEN /\ urlstr' = [urlstr EXCEPT ![t] = UrlToString(u.val)]
                     /\ pc' = [pc EXCEPT ![t] = "win_build"]
                     /\ UNCHANGED result
                ELSE /\ result' = [result EXCEPT ![t] = u]
                     /\ pc' = [pc EXCEPT ![t] = "done"]
                     /\ UNCHANGED urlstr
    /\ UNCHANGED <<world, fn, arg, target, cmd, viaSys, envReads, probed, tm>>

\* windows::open: the command.
WinBuildStep(t) ==
    /\ pc[t] = "win_build"
    /\ result' = [result EXCEPT ![t] = Ok(CommandStart(urlstr[t]))]
    /\ pc' = [pc EXCEPT ![t] = "done"]
    /\ UNCHANGED <<world, fn, arg, target, cmd, viaSys, urlstr, envReads, probed, cwdReads, tm>>

\* PathOrURI::uri called by the user of the crate.
UriStep(t) ==
    /\ pc[t] = "uri"
    /\ cwdReads' = [cwdReads EXCEPT ![t] = @ + ReadsCwd(target[t])]
    /\ result' = [result EXCEPT ![t] = uri(target[t], cwd, platform)]
    /\ pc' = [pc EXCEPT ![t] = "done"]
    /\ UNCHANGED <<world, fn, arg, target, cmd, viaSys, urlstr, envReads, probed, tm>>

\* The call has returned; the thread is free for the next one.
Return(t) ==
    /\ pc[t] = "done"
    /\ pc' = [pc EXCEPT ![t] = "idle"]
    /\ fn' = [fn EXCEPT ![t] = "none"]
    /\ arg' = [arg EXCEPT ![t] = NoArg]
    /\ target' = [target EXCEPT ![t] = NoTarget]
    /\ cmd' = [cmd EXCEPT ![t] = <<>>]
    /\ viaSys' = [viaSys EXCEPT ![t] = FALSE]
    /\ urlstr' = [urlstr EXCEPT ![t] = <<>>]
    /\ result' = [result EXCEPT ![t] = NoResult]
    /\ envReads' = [envReads EXCEPT ![t] = {}]
    /\ probed' = [probed EXCEPT ![t] = {}]
    /\ cwdReads' = [cwdReads EXCEPT ![t] = 0]
    /\ UNCHANGED <<world, tm>>

Next ==
    \E t \in Threads :
        \/ Call(t)
        \/ OpenEnvStep(t)
        \/ EnsureStep(t)
        \/ BuildStep(t)
        \/ WinUriStep(t)
        \/ WinBuildStep(t)
        \/ UriStep(t)
        \/ Return(t)

Spec == Init /\ [][Next]_vars

\* Two threads call concurrently.
InitConc ==
    /\ platform \in Platforms
    /\ env \in [EnvNames -> {Unset, SetTo(FIREFOX)}]
    /\ resolvable \in SUBSET {SysCommand(platform), FIREFOX}
    /\ cwd \in CwdChoices(platform)
    /\ pc = [t \in Threads |-> "idle"]
    /\ IdleCalls
    /\ TmOff

SpecConc == InitConc /\ [][Next]_vars

(***************************************************************************)
(* The constructors of PathOrURI and its Display, on every string of at    *)
(* most MaxLen tokens of Alphabet and on the strings of the crate's tests. *)
(***************************************************************************)
MaxLen == 4

Alphabet == {"file", "HTTPS", "web", ":", "/", ".", "aa", "?", " "}

Samples ==
    {<<"/", "test", "/", "path">>,
     <<"/", "test", "/", "path", "/", "dir", "/">>,
     <<"https", ":", "/", "/", "example.com">>,
     <<"https", ":", "/", "/", "example.com", "/", "x">>,
     <<"https", ":", "/", "/", "example.com", "/", "subdir", "/">>,
     <<"https", ":", "/", "/", "example.com", "/", "test", "/", "path">>,
     <<"file", ":", "/", "/", "/", "test", "/", "path">>,
     <<"file", ":", "/", "/", "example.com", "/", "test", "?", "x">>,
     <<"FILE", ":", "/", "/", "/", "tmp", "/", " ", "x">>,
     <<"web", ":", "/", ".", "/", "/", "aa">>,
     <<"web", ":", "/", "/", "aa", "/", ".", ".", "/", "x", "?", " ", "x">>,
     <<"/", "tmp", "/", "report.pdf">>,
     <<".", "/", "a", "/", ".", ".", "/", "b.txt">>}

\* The strings of at most n tokens, and the tests' strings.
StrsUpTo(n) == UNION {[1..k -> Alphabet] : k \in 0..n} \cup Samples

\* A PathBuf need not be Unicode.
OsStrsOf(S) == S \cup {BadPath, <<BAD>>}

\* A Url value comes from parsing.
UrlsOf(S) == {UrlParse(s).val : s \in {x \in S : UrlParse(x).ok}}

TmInputs(n) ==
    LET S == StrsUpTo(n)
    IN  {[kind |-> "Str", s |-> x] : x \in S}
        \cup {[kind |-> "Url", url |-> u] : u \in UrlsOf(S)}
        \cup {[kind |-> "PathBuf", path |-> p] : p \in OsStrsOf(S)}

InitTarget ==
    /\ platform = "linux"
    /\ env = [n \in EnvNames |-> Unset]
    /\ resolvable = {}
    /\ cwd = Ok(HomeDir("linux"))
    /\ pc = [t \in Threads |-> "off"]
    /\ IdleCalls
    /\ tm_stage = "input"
    /\ tm_in \in TmInputs(MaxLen)
    /\ tm_res = NoResult
    /\ tm_prev = NoTarget
    /\ tm_out = <<>>

\* s.parse::<PathOrURI>(), PathOrURI::from(url), PathOrURI::from(path)
TmConstruct ==
    /\ tm_stage = "input"
    /\ tm_res' = IF tm_in.kind = "Str" THEN from_str(tm_in.s) ELSE Ok(From(tm_in))
    /\ tm_stage' = "value"
    /\ UNCHANGED <<world, calls, tm_in, tm_prev, tm_out>>

\* value.to_string()
TmDisplay ==
    /\ tm_stage = "value"
    /\ tm_res.ok
    /\ tm_out' = to_string(tm_res.val)
    /\ tm_stage' = "shown"
    /\ UNCHANGED <<world, calls, tm_in, tm_res, tm_prev>>

\* The display string is parsed in its turn.
TmReparse ==
    /\ tm_stage = "shown"
    /\ tm_prev = NoTarget
    /\ tm_prev' = tm_res.val
    /\ tm_in' = [kind |-> "Str", s |-> tm_out]
    /\ tm_res' = NoResult
    /\ tm_stage' = "input"
    /\ UNCHANGED <<world, calls, tm_out>>

NextTarget == TmConstruct \/ TmDisplay \/ TmReparse

SpecTarget == InitTarget /\ [][NextTarget]_vars

(***************************************************************************)
(* Properties of the constructors (specification SpecTarget).              *)
(***************************************************************************)
TmBuilt == tm_stage \in {"value", "shown"}

\* C5: every value a constructor (From<Url>, From<PathBuf>, FromStr) returns
\* is a URI only of a scheme other than file; From<Url>(u) is Path(u.path())
\* and not a URI when u's scheme is file, and URI(u) unchanged and not a path
\* otherwise.
C5_FileCollapse ==
    TmBuilt =>
        /\ tm_res.ok
        /\ is_uri(tm_res.val) => tm_res.val.uri.scheme # <<"file">>
        /\ tm_in.kind = "Url" =>
            IF tm_in.url.scheme = <<"file">>
                THEN /\ tm_res.val = PathVal(tm_in.url.path)
                     /\ is_path(tm_res.val) /\ ~is_uri(tm_res.val)
                ELSE /\ tm_res.val = UriVal(tm_in.url)
                     /\ is_uri(tm_res.val) /\ ~is_path(tm_res.val)

\* A file: URL with a host and a query has become the path alone.
C5_Witness ==
    /\ TmBuilt
    /\ tm_in.kind = "Url"
    /\ tm_in.url.scheme = <<"file">>
    /\ tm_in.url.host = <<"example.com">>
    /\ tm_in.url.hasQuery
    /\ tm_res.val = PathVal(<<"/", "test">>)

\* C6: from_str never fails and returns exactly one variant: the URI
\* constructor's value when the string parses as a URI (a path for a file:
\* string), else Path holding the whole string, the empty string included.
C6_FromStrTotal ==
    (TmBuilt /\ tm_in.kind = "Str") =>
        LET r == UrlParse(tm_in.s)
        IN  /\ tm_res.ok
            /\ tm_res.val.tag \in {"Path", "URI"}
            /\ is_path(tm_res.val) # is_uri(tm_res.val)
            /\ r.ok => tm_res.val = FromUrl(r.val)
            /\ (r.ok /\ r.val.scheme = <<"file">>) => tm_res.val = PathVal(r.val.path)
            /\ ~r.ok => tm_res.val = PathVal(tm_in.s)

\* The empty string and a string with blanks around it, both kept whole.
C6_Witness ==
    /\ TmBuilt
    /\ tm_in.kind = "Str"
    /\ tm_in.s \in {<<>>, <<" ", "aa", " ">>}
    /\ tm_res = Ok(PathVal(tm_in.s))

\* C7: the display string of a URI value built by a constructor parses back
\* to an equal URI value of the same scheme.
C7_RoundTrip ==
    (TmBuilt /\ is_uri(tm_prev)) =>
        /\ tm_in = [kind |-> "Str", s |-> to_string(tm_prev)]
        /\ tm_res.ok
        /\ is_uri(tm_res.val)
        /\ tm_res.val = tm_prev
        /\ tm_res.val.uri.scheme = tm_prev.uri.scheme

\* A URI with a host, a path and a query has made the round trip.
C7_Witness ==
    /\ TmBuilt
    /\ is_uri(tm_prev)
    /\ tm_prev.uri.hasQuery /\ tm_prev.uri.hasHost /\ Len(tm_prev.uri.path) > 1
    /\ tm_res.val = tm_prev

(***************************************************************************)
(* Properties of the resolver (specification Spec).                        *)
(***************************************************************************)
EnvCall(t) == fn[t] \in {"open_browser", "open_editor"}

Override(t) == env[EnvOf(fn[t])]

NotFound(exe) == Err([kind |-> "NotFound", exe |-> exe])

C2_UnsetDelegates ==
    \A t \in Threads :
        /\ (EnvCall(t) /\ ~Override(t).set) =>
            /\ pc[t] # "open_env" => (viaSys[t] /\ cmd[t] = SysCommand(platform))
            /\ pc[t] = "done" =>
                result[t] = sys_open(platform, resolvable, cwd, target[t])
        /\ viaSys[t] =>
            /\ pc[t] \in {"build", "win_uri", "win_build"} =>
                (cmd[t] \in probed[t] /\ cmd[t] \in resolvable)
            /\ (pc[t] = "done" /\ result[t].ok) =>
                /\ result[t].val.program = SysCommand(platform)
                /\ SysCommand(platform) \in probed[t] \cap resolvable
            /\ (pc[t] = "done" /\ SysCommand(platform) \notin resolvable) =>
                result[t] = NotFound(SysCommand(platform))

\* The variable is unset and the adapter's program is missing.
C2_Witness ==
    /\ pc[1] = "done"
    /\ fn[1] = "open_editor"
    /\ ~env[EDITOR_ENV].set
    /\ SysCommand(platform) \notin resolvable
    /\ result[1] = NotFound(SysCommand(platform))

\* C3 as claimed: with the variable set to the empty string, open_browser and
\* open_editor do not use it as the program name and return what they return
\* when the variable is unset, the platform adapter's result.
C3_EmptyDelegates ==
    \A t \in Threads :
        (EnvCall(t) /\ Override(t) = SetTo(<<>>) /\ pc[t] = "done") =>
            /\ cmd[t] # <<>>
            /\ result[t] = sys_open(platform, resolvable, cwd, target[t])

\* C3 as amended: the empty string is a value like any other: it is the
\* program name given to the existence check, and the platform adapter is
\* not entered; only a variable std::env::var does not return delegates.
C3_EmptyIsAnOverride ==
    \A t \in Threads :
        /\ (EnvCall(t) /\ Override(t) = SetTo(<<>>)) =>
            /\ ~viaSys[t]
            /\ pc[t] = "done" =>
                /\ cmd[t] = <<>>
                /\ probed[t] = {<<>>}
                /\ result[t] =
                    IF <<>> \in resolvable
                        THEN Ok([program |-> <<>>, args |-> <<to_string(target[t])>>])
                        ELSE NotFound(<<>>)
        /\ (EnvCall(t) /\ pc[t] # "open_env") =>
            (viaSys[t] <=> (~Override(t).set \/ ~IsUnicode(Override(t).val)))

\* The empty override fails although the platform's opener is there.
C3_Witness ==
    /\ pc[1] = "done"
    /\ fn[1] = "open_browser"
    /\ env[BROWSER_ENV] = SetTo(<<>>)
    /\ SysCommand(platform) \in resolvable
    /\ result[1] = NotFound(<<>>)

\* C4: open reads neither BROWSER nor EDITOR: whatever their values, it
\* returns the platform adapter's result for the target.
C4_OpenIgnoresEnv ==
    \A t \in Threads :
        (fn[t] = "open") =>
            /\ envReads[t] = {}
            /\ viaSys[t]
            /\ pc[t] = "done" =>
                /\ result[t] = sys_open(platform, resolvable, cwd, From(arg[t]))
                /\ \A e \in AllEnvs :
                    open(platform, e, resolvable, cwd, arg[t]) = result[t]

\* open returned the platform's descriptor with both variables naming a
\* resolvable program.
C4_Witness ==
    /\ pc[1] = "done"
    /\ fn[1] = "open"
    /\ env[BROWSER_ENV] = SetTo(FIREFOX)
    /\ env[EDITOR_ENV] = SetTo(FIREFOX)
    /\ FIREFOX \in resolvable
    /\ result[1].ok
    /\ result[1].val.program = SysCommand(platform)

ViaWindows(t) == platform = "windows" /\ viaSys[t]

\* C8 as claimed: the Windows adapter returns the conversion failure of a
\* target whose URI conversion fails, and any descriptor it returns is cmd
\* with /c, start and the target's URI form.
C8_FailurePropagates ==
    \A t \in Threads :
        (ViaWindows(t) /\ pc[t] = "done") =>
            LET u == uri(target[t], cwd, platform)
            IN  /\ ~u.ok => result[t] = u
                /\ result[t].ok =>
                    result[t].val =
                        [program |-> WINDOWS_OPEN_COMMAND,
                         args |-> << <<"/c">>, <<"start">>, UrlToString(u.val) >>]

\* C8 as amended: for a target whose URI conversion fails the Windows adapter
\* returns no descriptor: the conversion failure when cmd passed the
\* existence check, NotFound naming cmd when it did not; any descriptor it
\* returns is cmd with /c, start and the target's URI form, which for a path
\* is not its display string.
C8_NoRawPathFallback ==
    \A t \in Threads :
        (ViaWindows(t) /\ pc[t] = "done") =>
            LET u == uri(target[t], cwd, platform)
            IN  /\ ~u.ok =>
                    result[t] = IF WINDOWS_OPEN_COMMAND \in resolvable
                                    THEN u ELSE NotFound(WINDOWS_OPEN_COMMAND)
                /\ result[t].ok =>
                    /\ u.ok
                    /\ result[t].val.program = WINDOWS_OPEN_COMMAND
                    /\ result[t].val.args =
                        << <<"/c">>, <<"start">>, UrlToString(u.val) >>
                    /\ is_path(target[t]) =>
                        result[t].val.args[3] # to_string(target[t])

\* cmd is there and the path has no URI form: FileToURI carrying the path.
C8_Witness ==
    /\ ViaWindows(1)
    /\ pc[1] = "done"
    /\ WINDOWS_OPEN_COMMAND \in resolvable
    /\ cwd.ok
    /\ target[1] = PathVal(BadPath)
    /\ result[1] = Err([kind |-> "FileToURI", path |-> BadPath])

IsDotSegment(sg) == sg = <<".">> \/ sg = <<".", ".">>

Alone(t) ==
    CASE fn[t] = "open" -> open(platform, env, resolvable, cwd, arg[t])
      [] fn[t] = "open_browser" -> open_browser(platform, env, resolvable, cwd, arg[t])
      [] fn[t] = "open_editor" -> open_editor(platform, env, resolvable, cwd, arg[t])
      [] fn[t] = "uri" -> uri(From(arg[t]), cwd, platform)

Locals(t) ==
    <<pc[t], fn[t], arg[t], target[t], cmd[t], viaSys[t], urlstr[t], result[t],
      envReads[t], probed[t], cwdReads[t]>>

\* C10: no step of any call writes the environment, the search path, the
\* working directory or another call's state, and every call, however it
\* is interleaved with others, returns what it returns when run alone.
C10_CallsIndependent ==
    /\ [](\A t \in Threads : pc[t] = "done" => result[t] = Alone(t))
    /\ [][/\ world' = world
          /\ \E t \in Threads : \A o \in Threads \ {t} : Locals(o)' = Locals(o)]_vars

\* One call has failed while another, begun before it ended, has succeeded.
C10_Witness ==
    /\ pc[1] = "done" /\ ~result[1].ok
    /\ pc[2] = "done" /\ result[2].ok
    /\ fn[1] = fn[2]

====
